---- MODULE Spec2Model ----
(***************************************************************************)
(* ShimOptions::ShimOptions (AspNetCoreModuleV2 shim): the resolution of   *)
(* the hosting options from a configuration source and the process         *)
(* environment.  The constructor is modelled statement by statement; every *)
(* accessor call is recorded in `calls`, in the order the code makes it.   *)
(*                                                                         *)
(* A std::wstring is a sequence of characters, a character a one-character *)
(* string.  A std::optional<T> is <<>> (nullopt) or <<v>>.                  *)
(***************************************************************************)
EXTENDS Naturals, Sequences, FiniteSets, TLC

VARIABLES
    configurationSource,   \* the ConfigurationSource handed to the constructor
    environment,           \* the process environment (name -> optional value)
    pc,                    \* the statement the constructor is at
    calls,                 \* accessor calls made so far by this construction
    exception,             \* nullopt, or the exception the constructor threw
    m_hostingModel,
    m_strHandlerVersion,
    m_strProcessPath,
    m_strArguments,
    m_fStdoutLogEnabled,
    m_struStdoutLogFile,
    m_fDisableStartupPage,
    m_fIsDevelopment,
    firstConstructed       \* outcome of the first construction that returned

vars == <<configurationSource, environment, pc, calls, exception,
          m_hostingModel, m_strHandlerVersion, m_strProcessPath, m_strArguments,
          m_fStdoutLogEnabled, m_struStdoutLogFile, m_fDisableStartupPage,
          m_fIsDevelopment, firstConstructed>>

members == <<m_hostingModel, m_strHandlerVersion, m_strProcessPath, m_strArguments,
             m_fStdoutLogEnabled, m_struStdoutLogFile, m_fDisableStartupPage,
             m_fIsDevelopment>>

-----------------------------------------------------------------------------
(* std::optional *)

nullopt == <<>>

make_optional(v) == <<v>>

has_value(o) == o # <<>>

value_or(o, d) == IF o = <<>> THEN d ELSE o[1]

-----------------------------------------------------------------------------
(* Strings *)

LowerLetters ==
    <<"a","b","c","d","e","f","g","h","i","j","k","l","m",
      "n","o","p","q","r","s","t","u","v","w","x","y","z">>

UpperLetters ==
    <<"A","B","C","D","E","F","G","H","I","J","K","L","M",
      "N","O","P","Q","R","S","T","U","V","W","X","Y","Z">>

\* The upper-case letter of every lower-case letter.
UpperOf ==
    [c \in {LowerLetters[i] : i \in DOMAIN LowerLetters} |->
        UpperLetters[CHOOSE i \in DOMAIN LowerLetters : LowerLetters[i] = c]]

\* Upper-casing of one character, as an ordinal, culture-free comparison does it.
ToUpper(c) == IF c \in DOMAIN UpperOf THEN UpperOf[c] ELSE c

\* equals_ignore_case(s1, s2): ordinal comparison of the two strings, with
\* their lengths, ignoring case.
equals_ignore_case(s1, s2) ==
    /\ Len(s1) = Len(s2)
    /\ \A i \in 1..Len(s1) : ToUpper(s1[i]) = ToUpper(s2[i])

\* format(L"...%s...", value): the text before %s, the value, the text after.
\* (Configuration values hold no NUL character, so c_str() is the whole value.)
format(before, value, after) == before \o value \o after

\* find_element(pairs, key): the value of the first pair whose key is `key`.
find_element(pairs, key) ==
    IF \E i \in 1..Len(pairs) : pairs[i][1] = key
    THEN make_optional(pairs[CHOOSE i \in 1..Len(pairs) :
                                /\ pairs[i][1] = key
                                /\ \A j \in 1..(i-1) : pairs[j][1] # key][2])
    ELSE nullopt

-----------------------------------------------------------------------------
(* Literals *)

CS_ASPNETCORE_HANDLER_VERSION ==
    <<"h","a","n","d","l","e","r","V","e","r","s","i","o","n">>

CS_ASPNETCORE_HOSTING_MODEL_OUTOFPROCESS ==
    <<"o","u","t","o","f","p","r","o","c","e","s","s">>

CS_ASPNETCORE_HOSTING_MODEL_INPROCESS ==
    <<"i","n","p","r","o","c","e","s","s">>

CS_ASPNETCORE_PROCESS_ARGUMENTS_DEFAULT == <<".">>

UnknownHostingModelBefore ==
    <<"U","n","k","n","o","w","n"," ","h","o","s","t","i","n","g"," ",
      "m","o","d","e","l"," ","'">>

UnknownHostingModelAfter ==
    <<"'","."," ","P","l","e","a","s","e"," ","s","p","e","c","i","f","y"," ",
      "e","i","t","h","e","r"," ","h","o","s","t","i","n","g","M","o","d","e","l",
      "=","\"","i","n","p","r","o","c","e","s","s","\""," ","o","r"," ",
      "h","o","s","t","i","n","g","M","o","d","e","l","=","\"",
      "o","u","t","o","f","p","r","o","c","e","s","s","\""," ","i","n"," ",
      "t","h","e"," ","w","e","b",".","c","o","n","f","i","g"," ",
      "f","i","l","e",".">>

EnvOne == <<"1">>

EnvTrue == <<"t","r","u","e">>

EnvDevelopment == <<"D","e","v","e","l","o","p","m","e","n","t">>

-----------------------------------------------------------------------------
(* ConfigurationSource, ConfigurationSection, Environment                    *)
(* A configuration source is nullopt (it has no aspNetCore section) or holds *)
(* the section: a record of its attributes and sub-blocks.  A string        *)
(* attribute is an optional string; a bool attribute is "absent",           *)
(* "unparseable", "true" or "false".                                         *)

GetSection(source) == source

GetString(section, name) == section[name]

GetBool(section, name) ==
    IF section[name] = "true" THEN make_optional(TRUE)
    ELSE IF section[name] = "false" THEN make_optional(FALSE)
    ELSE nullopt

\* GetRequiredString: nullopt here stands for the exception it throws.
GetRequiredString(section, name) ==
    IF has_value(GetString(section, name)) /\ GetString(section, name)[1] # <<>>
    THEN GetString(section, name)
    ELSE nullopt

\* GetRequiredBool: nullopt here stands for the exception it throws.
GetRequiredBool(section, name) == GetBool(section, name)

GetKeyValuePairs(section, name) == section[name]

GetEnvironmentVariableValue(name) == environment[name]

-----------------------------------------------------------------------------
(* The decisions of the constructor *)

HOSTING_UNKNOWN == "HOSTING_UNKNOWN"

HOSTING_IN_PROCESS == "HOSTING_IN_PROCESS"

HOSTING_OUT_PROCESS == "HOSTING_OUT_PROCESS"

\* Mutant: the empty value is not taken for out-of-process.
IsOutOfProcess_NotEmpty(hostingModel) ==
    equals_ignore_case(hostingModel, CS_ASPNETCORE_HOSTING_MODEL_OUTOFPROCESS)

\* The section the constructor holds once GetRequiredSection has returned.
section == configurationSource[1]

\* The condition of the first branch: empty, or the out-of-process token.
IsOutOfProcess(hostingModel) ==
    \/ hostingModel = <<>>
    \/ equals_ignore_case(hostingModel, CS_ASPNETCORE_HOSTING_MODEL_OUTOFPROCESS)

\* Mutant: the in-process token is compared with its case.
IsInProcess_CaseSensitive(hostingModel) ==
    hostingModel = CS_ASPNETCORE_HOSTING_MODEL_INPROCESS

\* The condition of the second branch: the in-process token.
IsInProcess(hostingModel) ==
    equals_ignore_case(hostingModel, CS_ASPNETCORE_HOSTING_MODEL_INPROCESS)

\* Mutant: the message is formatted without its argument.
UnknownHostingModelMessage_NoValue(hostingModel) ==
    format(UnknownHostingModelBefore, <<>>, UnknownHostingModelAfter)

\* The message of the exception of the last branch.
UnknownHostingModelMessage(hostingModel) ==
    format(UnknownHostingModelBefore, hostingModel, UnknownHostingModelAfter)

\* Mutant: the handlerSettings sub-block is read in either hosting model.
ReadsHandlerSettings_Always(hostingModel) == TRUE

\* Whether the handlerSettings sub-block is read.
ReadsHandlerSettings(hostingModel) == hostingModel = HOSTING_OUT_PROCESS

\* Mutant: the handler version is looked up under a key of another case.
HandlerVersionOf_OtherCase(handlerSettings) ==
    value_or(find_element(handlerSettings,
                          <<"H","a","n","d","l","e","r","V","e","r","s","i","o","n">>),
             <<>>)

\* The handler version found in the handlerSettings pairs.
HandlerVersionOf(handlerSettings) ==
    value_or(find_element(handlerSettings, CS_ASPNETCORE_HANDLER_VERSION), <<>>)

\* Mutant: empty arguments are replaced by the default too.
ArgumentsOf_EmptyIsAbsent(sec) ==
    IF value_or(GetString(sec, "arguments"), <<>>) = <<>>
    THEN CS_ASPNETCORE_PROCESS_ARGUMENTS_DEFAULT
    ELSE GetString(sec, "arguments")[1]

\* The arguments of the section.
ArgumentsOf(sec) ==
    value_or(GetString(sec, "arguments"), CS_ASPNETCORE_PROCESS_ARGUMENTS_DEFAULT)

\* Mutant: a variable the process does not set is taken from the
\* environmentVariables block of the configuration file.
EnvironmentValue_FromConfiguration(name) ==
    value_or(GetEnvironmentVariableValue(name),
             value_or(find_element(section.environmentVariables, name), <<>>))

\* The value of an environment variable, empty when it is not set.
EnvironmentValue(name) == value_or(GetEnvironmentVariableValue(name), <<>>)

\* Mutant: DOTNET_ENVIRONMENT is left out of the flag.
IsDevelopment_NoDotnet(detailedErrors, aspnetCoreEnvironment, dotnetEnvironment) ==
    \/ equals_ignore_case(EnvOne, detailedErrors)
    \/ equals_ignore_case(EnvTrue, detailedErrors)
    \/ equals_ignore_case(EnvDevelopment, aspnetCoreEnvironment)

\* m_fIsDevelopment from the values of the three environment variables.
IsDevelopment(detailedErrors, aspnetCoreEnvironment, dotnetEnvironment) ==
    LET detailedErrorsEnabled ==
            \/ equals_ignore_case(EnvOne, detailedErrors)
            \/ equals_ignore_case(EnvTrue, detailedErrors)
        aspnetCoreEnvironmentEnabled ==
            equals_ignore_case(EnvDevelopment, aspnetCoreEnvironment)
        dotnetEnvironmentEnabled ==
            equals_ignore_case(EnvDevelopment, dotnetEnvironment)
    IN  detailedErrorsEnabled \/ aspnetCoreEnvironmentEnabled \/ dotnetEnvironmentEnabled

-----------------------------------------------------------------------------
(* The constructor, statement by statement *)

\* A throw leaves the constructor: the object is never constructed.
Throw(thrownBy, name, message) ==
    /\ pc' = "thrown"
    /\ exception' = make_optional([type |-> "ConfigurationLoadException",
                                   thrownBy |-> thrownBy,
                                   name |-> name,
                                   message |-> message])

Goto(next) ==
    /\ pc' = next
    /\ UNCHANGED exception

Call(name) == calls' = Append(calls, name)

GetSectionStep ==
    /\ pc = "section"
    /\ Call("GetRequiredSection")
    /\ IF has_value(GetSection(configurationSource))
       THEN Goto("hostingModel")
       ELSE Throw("GetRequiredSection", "aspNetCore", <<>>)
    /\ UNCHANGED <<configurationSource, environment, members, firstConstructed>>

HostingModelStep ==
    /\ pc = "hostingModel"
    /\ Call("GetString:hostingModel")
    /\ LET hostingModel == value_or(GetString(section, "hostingModel"), <<>>)
       IN  IF IsOutOfProcess(hostingModel)
           THEN /\ m_hostingModel' = HOSTING_OUT_PROCESS
                /\ Goto("handlerSettings")
           ELSE IF IsInProcess(hostingModel)
           THEN /\ m_hostingModel' = HOSTING_IN_PROCESS
                /\ Goto("handlerSettings")
           ELSE /\ Throw("ShimOptions", "hostingModel",
                         UnknownHostingModelMessage(hostingModel))
                /\ UNCHANGED m_hostingModel
    /\ UNCHANGED <<configurationSource, environment, firstConstructed,
                   m_strHandlerVersion, m_strProcessPath, m_strArguments,
                   m_fStdoutLogEnabled, m_struStdoutLogFile, m_fDisableStartupPage,
                   m_fIsDevelopment>>

HandlerSettingsStep ==
    /\ pc = "handlerSettings"
    /\ IF ReadsHandlerSettings(m_hostingModel)
       THEN /\ Call("GetKeyValuePairs:handlerSettings")
            /\ m_strHandlerVersion' =
                   HandlerVersionOf(GetKeyValuePairs(section, "handlerSettings"))
       ELSE UNCHANGED <<calls, m_strHandlerVersion>>
    /\ Goto("processPath")
    /\ UNCHANGED <<configurationSource, environment, firstConstructed,
                   m_hostingModel, m_strProcessPath, m_strArguments,
                   m_fStdoutLogEnabled, m_struStdoutLogFile, m_fDisableStartupPage,
                   m_fIsDevelopment>>

\* Mutant: processPath is read as an optional string.
ProcessPathStep_Optional ==
    /\ pc = "processPath"
    /\ Call("GetRequiredString:processPath")
    /\ m_strProcessPath' = value_or(GetString(section, "processPath"), <<>>)
    /\ Goto("arguments")
    /\ UNCHANGED <<configurationSource, environment, firstConstructed,
                   m_hostingModel, m_strHandlerVersion, m_strArguments,
                   m_fStdoutLogEnabled, m_struStdoutLogFile, m_fDisableStartupPage,
                   m_fIsDevelopment>>

ProcessPathStep ==
    /\ pc = "processPath"
    /\ Call("GetRequiredString:processPath")
    /\ IF has_value(GetRequiredString(section, "processPath"))
       THEN /\ m_strProcessPath' = GetRequiredString(section, "processPath")[1]
            /\ Goto("arguments")
       ELSE /\ Throw("GetRequiredString", "processPath", <<>>)
            /\ UNCHANGED m_strProcessPath
    /\ UNCHANGED <<configurationSource, environment, firstConstructed,
                   m_hostingModel, m_strHandlerVersion, m_strArguments,
                   m_fStdoutLogEnabled, m_struStdoutLogFile, m_fDisableStartupPage,
                   m_fIsDevelopment>>

ArgumentsStep ==
    /\ pc = "arguments"
    /\ Call("GetString:arguments")
    /\ m_strArguments' = ArgumentsOf(section)
    /\ Goto("stdoutLogEnabled")
    /\ UNCHANGED <<configurationSource, environment, firstConstructed,
                   m_hostingModel, m_strHandlerVersion, m_strProcessPath,
                   m_fStdoutLogEnabled, m_struStdoutLogFile, m_fDisableStartupPage,
                   m_fIsDevelopment>>

\* Mutant: a failed read of stdoutLogEnabled is swallowed and the
\* constructor goes on.
StdoutLogEnabledStep_GoesOn ==
    /\ pc = "stdoutLogEnabled"
    /\ Call("GetRequiredBool:stdoutLogEnabled")
    /\ m_fStdoutLogEnabled' = value_or(GetBool(section, "stdoutLogEnabled"), FALSE)
    /\ Goto("stdoutLogFile")
    /\ UNCHANGED <<configurationSource, environment, firstConstructed,
                   m_hostingModel, m_strHandlerVersion, m_strProcessPath,
                   m_strArguments, m_struStdoutLogFile, m_fDisableStartupPage,
                   m_fIsDevelopment>>

StdoutLogEnabledStep ==
    /\ pc = "stdoutLogEnabled"
    /\ Call("GetRequiredBool:stdoutLogEnabled")
    /\ IF has_value(GetRequiredBool(section, "stdoutLogEnabled"))
       THEN /\ m_fStdoutLogEnabled' = GetRequiredBool(section, "stdoutLogEnabled")[1]
            /\ Goto("stdoutLogFile")
       ELSE /\ Throw("GetRequiredBool", "stdoutLogEnabled", <<>>)
            /\ UNCHANGED m_fStdoutLogEnabled
    /\ UNCHANGED <<configurationSource, environment, firstConstructed,
                   m_hostingModel, m_strHandlerVersion, m_strProcessPath,
                   m_strArguments, m_struStdoutLogFile, m_fDisableStartupPage,
                   m_fIsDevelopment>>

StdoutLogFileStep ==
    /\ pc = "stdoutLogFile"
    /\ Call("GetRequiredString:stdoutLogFile")
    /\ IF has_value(GetRequiredString(section, "stdoutLogFile"))
       THEN /\ m_struStdoutLogFile' = GetRequiredString(section, "stdoutLogFile")[1]
            /\ Goto("disableStartupErrorPage")
       ELSE /\ Throw("GetRequiredString", "stdoutLogFile", <<>>)
            /\ UNCHANGED m_struStdoutLogFile
    /\ UNCHANGED <<configurationSource, environment, firstConstructed,
                   m_hostingModel, m_strHandlerVersion, m_strProcessPath,
                   m_strArguments, m_fStdoutLogEnabled, m_fDisableStartupPage,
                   m_fIsDevelopment>>

DisableStartupPageStep ==
    /\ pc = "disableStartupErrorPage"
    /\ Call("GetRequiredBool:disableStartupErrorPage")
    /\ IF has_value(GetRequiredBool(section, "disableStartupErrorPage"))
       THEN /\ m_fDisableStartupPage' =
                   GetRequiredBool(section, "disableStartupErrorPage")[1]
            /\ Goto("environment")
       ELSE /\ Throw("GetRequiredBool", "disableStartupErrorPage", <<>>)
            /\ UNCHANGED m_fDisableStartupPage
    /\ UNCHANGED <<configurationSource, environment, firstConstructed,
                   m_hostingModel, m_strHandlerVersion, m_strProcessPath,
                   m_strArguments, m_fStdoutLogEnabled, m_struStdoutLogFile,
                   m_fIsDevelopment>>

EnvironmentStep ==
    /\ pc = "environment"
    /\ calls' = calls \o <<"GetEnvironmentVariableValue:ASPNETCORE_DETAILEDERRORS",
                           "GetEnvironmentVariableValue:ASPNETCORE_ENVIRONMENT",
                           "GetEnvironmentVariableValue:DOTNET_ENVIRONMENT">>
    /\ m_fIsDevelopment' = IsDevelopment(EnvironmentValue("ASPNETCORE_DETAILEDERRORS"),
                                         EnvironmentValue("ASPNETCORE_ENVIRONMENT"),
                                         EnvironmentValue("DOTNET_ENVIRONMENT"))
    /\ Goto("done")
    /\ UNCHANGED <<configurationSource, environment, firstConstructed,
                   m_hostingModel, m_strHandlerVersion, m_strProcessPath,
                   m_strArguments, m_fStdoutLogEnabled, m_struStdoutLogFile,
                   m_fDisableStartupPage>>

\* The object exists once the constructor has returned.
constructed == pc = "done"

-----------------------------------------------------------------------------
(* Inputs: the configuration sources and environments the model draws from *)

MaxLen == 2

MaxPairs == 2

\* Every string of at most n characters of the alphabet.
StringsUpTo(alphabet, n) == UNION {[1..k -> alphabet] : k \in 0..n}

\* Every spelling of a lower-case token with any of its letters in upper case.
CaseVariants(token) ==
    {[i \in 1..Len(token) |-> IF i \in upper THEN ToUpper(token[i]) ELSE token[i]] :
        upper \in SUBSET (1..Len(token))}

Optionals(values) == {nullopt} \cup {make_optional(v) : v \in values}

TokenVariants ==
    CaseVariants(CS_ASPNETCORE_HOSTING_MODEL_OUTOFPROCESS)
        \cup CaseVariants(CS_ASPNETCORE_HOSTING_MODEL_INPROCESS)

NearTokens ==
    { <<"w","e","i","r","d","-","v","a","l","u","e">>,
      <<"i","n","p","r","o","c","e","s">>,
      <<"I","n","P","r","o","c","e","s","s","s">>,
      <<"i","n","-","p","r","o","c","e","s","s">>,
      <<"o","u","t","o","f","p","r","o","c","e","s","s"," ">>,
      <<"O","u","t","P","r","o","c","e","s","s">> }

ShortStrings == StringsUpTo({"i", "N", "-"}, MaxLen)

\* hostingModel values: absent, empty and short strings, every spelling of the
\* two tokens, and strings close to them.
AllHostingModels == Optionals(ShortStrings \cup TokenVariants \cup NearTokens)

SomeHostingModels ==
    Optionals({ <<>>,
                <<"i","n","p","r","o","c","e","s","s">>,
                <<"I","n","P","r","o","c","e","s","s">>,
                <<"o","u","t","o","f","p","r","o","c","e","s","s">>,
                <<"O","U","T","O","F","P","R","O","C","E","S","S">>,
                <<"w","e","i","r","d","-","v","a","l","u","e">>,
                <<"i","n">> })

HandlerKeys ==
    { CS_ASPNETCORE_HANDLER_VERSION,
      <<"H","a","n","d","l","e","r","V","e","r","s","i","o","n">>,
      <<"o","t","h","e","r">> }

HandlerValues == { <<"2",".","1">>, <<"3",".","0">> }

\* Every handlerSettings block of at most MaxPairs pairs.
\* (keys are unique within a block).
AllHandlerSettings ==
    {pairs \in UNION {[1..k -> {<<key, value>> : key \in HandlerKeys,
                                                  value \in HandlerValues}] :
                         k \in 0..MaxPairs} :
        \A i, j \in 1..Len(pairs) : pairs[i][1] = pairs[j][1] => i = j}

SomeHandlerSettings ==
    { <<>>,
      << <<CS_ASPNETCORE_HANDLER_VERSION, <<"2",".","1">> >> >> }

StringAttributes(value) == {nullopt, make_optional(<<>>), make_optional(value)}

BoolAttributes == {"absent", "unparseable", "true", "false"}

NoEnvironmentVariables == <<>>

ValidSection ==
    [hostingModel |-> nullopt,
     handlerSettings |-> <<>>,
     processPath |-> make_optional(<<"d","o","t","n","e","t">>),
     arguments |-> make_optional(<<"a","p","p",".","d","l","l">>),
     stdoutLogEnabled |-> "false",
     stdoutLogFile |-> make_optional(<<"l","o","g","s">>),
     disableStartupErrorPage |-> "false",
     environmentVariables |-> NoEnvironmentVariables]

\* Sections that differ in every attribute the required and optional reads see.
FieldSections ==
    [hostingModel : SomeHostingModels,
     handlerSettings : SomeHandlerSettings,
     processPath : StringAttributes(<<"d","o","t","n","e","t">>),
     arguments : StringAttributes(<<"a","p","p",".","d","l","l">>),
     stdoutLogEnabled : BoolAttributes,
     stdoutLogFile : StringAttributes(<<"l","o","g","s">>),
     disableStartupErrorPage : BoolAttributes,
     environmentVariables : {NoEnvironmentVariables}]

\* Sections that differ in the hostingModel attribute.
HostingModelSections ==
    {[ValidSection EXCEPT !.hostingModel = hm, !.handlerSettings = hs] :
        hm \in AllHostingModels, hs \in SomeHandlerSettings}

\* Sections that differ in the handlerSettings block.
HandlerSections ==
    {[ValidSection EXCEPT !.hostingModel = hm, !.handlerSettings = hs] :
        hm \in SomeHostingModels, hs \in AllHandlerSettings}

\* The sources a later construction is given.
ReloadSources ==
    { nullopt,
      make_optional([ValidSection EXCEPT
          !.environmentVariables = << <<"ASPNETCORE_ENVIRONMENT", EnvDevelopment>> >>]),
      make_optional([ValidSection EXCEPT
          !.hostingModel = make_optional(CS_ASPNETCORE_HOSTING_MODEL_INPROCESS),
          !.handlerSettings = << <<CS_ASPNETCORE_HANDLER_VERSION, <<"2",".","1">> >> >>,
          !.environmentVariables = << <<"ASPNETCORE_DETAILEDERRORS", EnvTrue>>,
                                      <<"DOTNET_ENVIRONMENT", EnvDevelopment>> >>]) }

Sources(sections) == {make_optional(sec) : sec \in sections}

Environment(detailedErrors, aspnetCoreEnvironment, dotnetEnvironment) ==
    [ASPNETCORE_DETAILEDERRORS : detailedErrors,
     ASPNETCORE_ENVIRONMENT : aspnetCoreEnvironment,
     DOTNET_ENVIRONMENT : dotnetEnvironment]

DetailedErrorsValues ==
    Optionals(CaseVariants(EnvTrue)
                \cup { <<>>, <<"1">>, <<"0">>, <<"1","1">>, <<"t","r","u">>,
                       <<"t","r","u","e"," ">>, <<"f","a","l","s","e">>,
                       <<"y","e","s">> })

EnvironmentNameValues ==
    Optionals(CaseVariants(<<"d","e","v","e","l","o","p","m","e","n","t">>)
                \cup { <<>>, <<"P","r","o","d","u","c","t","i","o","n">>,
                       <<"D","e","v","e","l","o","p","m","e","n">>,
                       <<"D","e","v","e","l","o","p","m","e","n","t","s">>,
                       <<"D","e","v">> })

SomeDetailedErrorsValues == Optionals({ <<>>, <<"1">>, <<"T","r","u","e">>, <<"0">> })

SomeEnvironmentNameValues ==
    Optionals({ <<"D","E","V","E","L","O","P","M","E","N","T">>,
                <<"P","r","o","d","u","c","t","i","o","n">> })

\* Environments: each variable over all its values with the others unset, and
\* every combination of a few values of each.
AllEnvironments ==
    Environment(DetailedErrorsValues, {nullopt}, {nullopt})
        \cup Environment({nullopt}, EnvironmentNameValues, {nullopt})
        \cup Environment({nullopt}, {nullopt}, EnvironmentNameValues)
        \cup Environment(SomeDetailedErrorsValues, SomeEnvironmentNameValues,
                         SomeEnvironmentNameValues)

NoEnvironment ==
    [ASPNETCORE_DETAILEDERRORS |-> nullopt,
     ASPNETCORE_ENVIRONMENT |-> nullopt,
     DOTNET_ENVIRONMENT |-> nullopt]

SomeEnvironments ==
    Environment({nullopt}, {nullopt, make_optional(EnvDevelopment)}, {nullopt})

-----------------------------------------------------------------------------
(* Specifications *)

\* The constructor is entered: m_hostingModel(HOSTING_UNKNOWN) and
\* m_fStdoutLogEnabled(false) are initialised, the strings are empty, and the
\* two other bools hold whatever the memory held.
Enter ==
    /\ pc = "section"
    /\ calls = <<>>
    /\ exception = nullopt
    /\ m_hostingModel = HOSTING_UNKNOWN
    /\ m_fStdoutLogEnabled = FALSE
    /\ m_strHandlerVersion = <<>>
    /\ m_strProcessPath = <<>>
    /\ m_strArguments = <<>>
    /\ m_struStdoutLogFile = <<>>
    /\ m_fDisableStartupPage \in BOOLEAN
    /\ m_fIsDevelopment \in BOOLEAN

InitWith(sources, environments) ==
    /\ configurationSource \in sources
    /\ environment \in environments
    /\ firstConstructed = nullopt
    /\ Enter

Init == InitWith({nullopt} \cup Sources(FieldSections), SomeEnvironments)

InitHostingModel ==
    InitWith({nullopt} \cup Sources(HostingModelSections), {NoEnvironment})

InitHandler == InitWith({nullopt} \cup Sources(HandlerSections), {NoEnvironment})

InitEnvironment == InitWith(Sources({ValidSection}), AllEnvironments)

\* The caller constructs the next ShimOptions, from a reloaded configuration,
\* in the same process; the outcome of the first object constructed is kept.
Reconstruct ==
    /\ pc \in {"done", "thrown"}
    /\ configurationSource' \in ReloadSources
    /\ firstConstructed' =
           IF pc = "done" /\ firstConstructed = nullopt
           THEN make_optional([isDevelopment |-> m_fIsDevelopment,
                               environmentVariables |-> section.environmentVariables])
           ELSE firstConstructed
    /\ pc' = "section"
    /\ calls' = <<>>
    /\ exception' = nullopt
    /\ m_hostingModel' = HOSTING_UNKNOWN
    /\ m_fStdoutLogEnabled' = FALSE
    /\ m_strHandlerVersion' = <<>>
    /\ m_strProcessPath' = <<>>
    /\ m_strArguments' = <<>>
    /\ m_struStdoutLogFile' = <<>>
    /\ m_fDisableStartupPage' \in BOOLEAN
    /\ m_fIsDevelopment' \in BOOLEAN
    /\ UNCHANGED environment

Next ==
    \/ GetSectionStep
    \/ HostingModelStep
    \/ HandlerSettingsStep
    \/ ProcessPathStep
    \/ ArgumentsStep
    \/ StdoutLogEnabledStep
    \/ StdoutLogFileStep
    \/ DisableStartupPageStep
    \/ EnvironmentStep
    \/ Reconstruct

Spec == Init /\ [][Next]_vars

SpecHostingModel == InitHostingModel /\ [][Next]_vars

SpecHandler == InitHandler /\ [][Next]_vars

SpecEnvironment == InitEnvironment /\ [][Next]_vars

-----------------------------------------------------------------------------
(* What the properties speak of *)

hasSection == has_value(configurationSource)

Called(name) == \E i \in 1..Len(calls) : calls[i] = name

Finished == pc \in {"done", "thrown"}

\* s spells the lower-case token, each letter in either case.
IsCaseVariantOf(s, token) ==
    /\ Len(s) = Len(token)
    /\ \A i \in 1..Len(s) : s[i] \in {token[i], ToUpper(token[i])}

Contains(text, part) ==
    \E i \in 0..(Len(text) - Len(part)) : SubSeq(text, i + 1, i + Len(part)) = part

\* The hostingModel value of the configuration, empty when the field is missing.
configuredHostingModel ==
    IF section.hostingModel = nullopt THEN <<>> ELSE section.hostingModel[1]

NamesOutOfProcess ==
    IsCaseVariantOf(configuredHostingModel, CS_ASPNETCORE_HOSTING_MODEL_OUTOFPROCESS)

NamesInProcess ==
    IsCaseVariantOf(configuredHostingModel, CS_ASPNETCORE_HOSTING_MODEL_INPROCESS)

HostingModelRecognised ==
    configuredHostingModel = <<>> \/ NamesOutOfProcess \/ NamesInProcess

HostingModelRead == hasSection /\ Called("GetString:hostingModel")

\* The error names of the specification: every one is a
\* ConfigurationLoadException, told apart by the place that throws it.
ErrorOf(e) ==
    CASE e.thrownBy = "GetRequiredSection" -> "MissingSectionError"
      [] e.thrownBy = "ShimOptions" -> "InvalidHostingModelError"
      [] e.thrownBy \in {"GetRequiredString", "GetRequiredBool"} ->
             "MissingRequiredFieldError"

Failed(error) == pc = "thrown" /\ ErrorOf(exception[1]) = error

StringUsable(name) ==
    section[name] # nullopt /\ section[name] # make_optional(<<>>)

BoolUsable(name) == section[name] \in {"true", "false"}

RequiredUnusable ==
    \/ ~StringUsable("processPath")
    \/ ~BoolUsable("stdoutLogEnabled")
    \/ ~StringUsable("stdoutLogFile")
    \/ ~BoolUsable("disableStartupErrorPage")

-----------------------------------------------------------------------------
(* C1: once hostingModel has been read, a value that is a case variant of   *)
(* "outofprocess" has given HOSTING_OUT_PROCESS and a case variant of       *)
(* "inprocess" HOSTING_IN_PROCESS, and the hosting-model exception is not   *)
(* thrown for either.                                                       *)
C1_CaseVariantsResolve ==
    HostingModelRead =>
        /\ NamesOutOfProcess =>
              /\ m_hostingModel = HOSTING_OUT_PROCESS
              /\ ~Failed("InvalidHostingModelError")
        /\ NamesInProcess =>
              /\ m_hostingModel = HOSTING_IN_PROCESS
              /\ ~Failed("InvalidHostingModelError")

C1_Witness ==
    /\ constructed
    /\ NamesInProcess
    /\ configuredHostingModel # CS_ASPNETCORE_HOSTING_MODEL_INPROCESS
    /\ m_hostingModel = HOSTING_IN_PROCESS

(* C2: once hostingModel has been read, a missing field or an empty value   *)
(* has given HOSTING_OUT_PROCESS and the hosting-model exception is not     *)
(* thrown.                                                                  *)
C2_EmptyIsOutOfProcess ==
    (HostingModelRead /\ section.hostingModel \in {nullopt, make_optional(<<>>)}) =>
        /\ m_hostingModel = HOSTING_OUT_PROCESS
        /\ ~Failed("InvalidHostingModelError")

C2_Witness ==
    /\ constructed
    /\ section.hostingModel = nullopt
    /\ m_hostingModel = HOSTING_OUT_PROCESS

(* C3: once hostingModel has been read, a non-empty value that is a case    *)
(* variant of neither token has made the constructor throw the              *)
(* hosting-model exception, whose message holds the value, quoted as it     *)
(* stands; no object is constructed.                                        *)
C3_UnknownValueThrows ==
    (HostingModelRead /\ ~HostingModelRecognised) =>
        /\ Failed("InvalidHostingModelError")
        /\ Contains(exception[1].message, configuredHostingModel)
        /\ Contains(exception[1].message,
                    <<"'">> \o configuredHostingModel \o <<"'">>)
        /\ ~constructed

C3_Witness ==
    /\ hasSection
    /\ configuredHostingModel = <<"w","e","i","r","d","-","v","a","l","u","e">>
    /\ Failed("InvalidHostingModelError")

(* C4: at every point of a construction whose hosting model is              *)
(* HOSTING_IN_PROCESS, GetKeyValuePairs has not been called and             *)
(* m_strHandlerVersion is empty.                                            *)
C4_InProcessNeverReadsHandlerSettings ==
    m_hostingModel = HOSTING_IN_PROCESS =>
        /\ ~Called("GetKeyValuePairs:handlerSettings")
        /\ m_strHandlerVersion = <<>>

C4_Witness ==
    /\ constructed
    /\ m_hostingModel = HOSTING_IN_PROCESS
    /\ \E i \in 1..Len(section.handlerSettings) :
           section.handlerSettings[i][1] = CS_ASPNETCORE_HANDLER_VERSION
    /\ m_strHandlerVersion = <<>>

(* C5: in an object constructed out of process, m_strHandlerVersion is the  *)
(* value of the handlerSettings pair whose key is exactly "handlerVersion", *)
(* and is empty when no pair has that key.                                  *)
C5_HandlerVersionFromExactKey ==
    (constructed /\ m_hostingModel = HOSTING_OUT_PROCESS) =>
        LET pairs == section.handlerSettings
        IN  /\ \A i \in 1..Len(pairs) :
                   pairs[i][1] = CS_ASPNETCORE_HANDLER_VERSION =>
                       m_strHandlerVersion = pairs[i][2]
            /\ (\A i \in 1..Len(pairs) : pairs[i][1] # CS_ASPNETCORE_HANDLER_VERSION)
                   => m_strHandlerVersion = <<>>

C5_Witness ==
    /\ constructed
    /\ m_hostingModel = HOSTING_OUT_PROCESS
    /\ section.handlerSettings =
           << << <<"H","a","n","d","l","e","r","V","e","r","s","i","o","n">>,
                 <<"3",".","0">> >>,
              << CS_ASPNETCORE_HANDLER_VERSION, <<"2",".","1">> >> >>
    /\ m_strHandlerVersion = <<"2",".","1">>

(* C6: in a constructed object, m_fIsDevelopment is true exactly when       *)
(* ASPNETCORE_DETAILEDERRORS is a case variant of "1" or "true", or         *)
(* ASPNETCORE_ENVIRONMENT or DOTNET_ENVIRONMENT is a case variant of        *)
(* "development"; a variable that is not set counts as empty.               *)
C6_IsDevelopmentFromEnvironment ==
    constructed =>
        LET valueOf(name) ==
                IF environment[name] = nullopt THEN <<>> ELSE environment[name][1]
            development == <<"d","e","v","e","l","o","p","m","e","n","t">>
        IN  m_fIsDevelopment <=>
                \/ valueOf("ASPNETCORE_DETAILEDERRORS") = <<"1">>
                \/ IsCaseVariantOf(valueOf("ASPNETCORE_DETAILEDERRORS"),
                                   <<"t","r","u","e">>)
                \/ IsCaseVariantOf(valueOf("ASPNETCORE_ENVIRONMENT"), development)
                \/ IsCaseVariantOf(valueOf("DOTNET_ENVIRONMENT"), development)

C6_Witness ==
    /\ constructed
    /\ environment.ASPNETCORE_DETAILEDERRORS = nullopt
    /\ environment.ASPNETCORE_ENVIRONMENT = nullopt
    /\ environment.DOTNET_ENVIRONMENT =
           make_optional(<<"d","E","v","e","l","O","p","m","e","n","T">>)
    /\ m_fIsDevelopment

(* C7: an object constructed after another one in the same process          *)
(* environment has the m_fIsDevelopment of that one, whatever the two       *)
(* configurations hold.                                                     *)
C7_IsDevelopmentIgnoresConfiguration ==
    (constructed /\ has_value(firstConstructed)) =>
        m_fIsDevelopment = firstConstructed[1].isDevelopment

C7_Witness ==
    /\ constructed
    /\ has_value(firstConstructed)
    /\ firstConstructed[1].environmentVariables = NoEnvironmentVariables
    /\ section.environmentVariables = << <<"ASPNETCORE_ENVIRONMENT", EnvDevelopment>> >>
    /\ ~m_fIsDevelopment

(* C8, as stated: a finished construction from a section with an unusable   *)
(* required field has thrown the required-field exception.                  *)
C8_AsStated ==
    /\ (Finished /\ hasSection /\ RequiredUnusable) =>
           Failed("MissingRequiredFieldError")
    /\ constructed => m_strProcessPath # <<>>

(* C8, amended: a finished construction from a section whose hostingModel   *)
(* is recognised and that has an unusable required field has thrown the     *)
(* required-field exception; no object is constructed from a section with   *)
(* an unusable required field, and a constructed object has a non-empty     *)
(* m_strProcessPath.                                                        *)
C8_RequiredFields ==
    /\ (Finished /\ hasSection /\ HostingModelRecognised /\ RequiredUnusable) =>
           Failed("MissingRequiredFieldError")
    /\ (hasSection /\ RequiredUnusable) => ~constructed
    /\ constructed => m_strProcessPath # <<>>

C8_Witness ==
    /\ hasSection
    /\ HostingModelRecognised
    /\ StringUsable("processPath")
    /\ BoolUsable("stdoutLogEnabled")
    /\ section.stdoutLogFile = make_optional(<<>>)
    /\ Failed("MissingRequiredFieldError")
    /\ exception[1].name = "stdoutLogFile"

(* C9: a constructed object has the default arguments "." when the          *)
(* arguments field is missing and the stored value, empty or not, when it   *)
(* is there; and a construction from a section with a recognised            *)
(* hostingModel and usable required fields ends constructed, with or        *)
(* without the arguments field.                                             *)
C9_ArgumentsDefault ==
    /\ constructed =>
           m_strArguments = IF section.arguments = nullopt
                            THEN <<".">>
                            ELSE section.arguments[1]
    /\ (Finished /\ hasSection /\ HostingModelRecognised /\ ~RequiredUnusable) =>
           constructed

C9_Witness ==
    /\ constructed
    /\ section.arguments = nullopt
    /\ m_strArguments = <<".">>

-----------------------------------------------------------------------------
(* C10: the order of the reads *)

ReadOrder ==
    <<"GetRequiredSection",
      "GetString:hostingModel",
      "GetKeyValuePairs:handlerSettings",
      "GetRequiredString:processPath",
      "GetString:arguments",
      "GetRequiredBool:stdoutLogEnabled",
      "GetRequiredString:stdoutLogFile",
      "GetRequiredBool:disableStartupErrorPage",
      "GetEnvironmentVariableValue:ASPNETCORE_DETAILEDERRORS",
      "GetEnvironmentVariableValue:ASPNETCORE_ENVIRONMENT",
      "GetEnvironmentVariableValue:DOTNET_ENVIRONMENT">>

\* Whether the read does not succeed on this configuration.
ReadFails(read) ==
    IF read = "GetRequiredSection" THEN ~hasSection
    ELSE /\ hasSection
         /\ CASE read = "GetString:hostingModel" -> ~HostingModelRecognised
              [] read = "GetRequiredString:processPath" -> ~StringUsable("processPath")
              [] read = "GetRequiredBool:stdoutLogEnabled" ->
                     ~BoolUsable("stdoutLogEnabled")
              [] read = "GetRequiredString:stdoutLogFile" ->
                     ~StringUsable("stdoutLogFile")
              [] read = "GetRequiredBool:disableStartupErrorPage" ->
                     ~BoolUsable("disableStartupErrorPage")
              [] OTHER -> FALSE

\* The place in ReadOrder of the first read that fails, 0 when none does.
FirstFailure ==
    IF \E i \in 1..Len(ReadOrder) : ReadFails(ReadOrder[i])
    THEN CHOOSE i \in 1..Len(ReadOrder) :
             /\ ReadFails(ReadOrder[i])
             /\ \A j \in 1..(i - 1) : ~ReadFails(ReadOrder[j])
    ELSE 0

\* The reads up to the first failing one, handlerSettings among them only
\* out of process.
ExpectedCalls ==
    LET last == IF FirstFailure = 0 THEN Len(ReadOrder) ELSE FirstFailure
        made(i) ==
            ReadOrder[i] = "GetKeyValuePairs:handlerSettings" =>
                (configuredHostingModel = <<>> \/ NamesOutOfProcess)
    IN  SelectSeq(SubSeq(ReadOrder, 1, last),
                  LAMBDA read : \E i \in 1..last : ReadOrder[i] = read /\ made(i))

ExpectedError ==
    CASE FirstFailure = 0 -> "none"
      [] ReadOrder[FirstFailure] = "GetRequiredSection" -> "MissingSectionError"
      [] ReadOrder[FirstFailure] = "GetString:hostingModel" -> "InvalidHostingModelError"
      [] OTHER -> "MissingRequiredFieldError"

(* C10: the calls made so far are the beginning of the fixed order of reads *)
(* cut after the first failing read; a construction that has thrown made    *)
(* exactly those reads, threw the error of that first failing read, and     *)
(* constructed nothing; one that has returned made every read and none      *)
(* failed.                                                                  *)
C10_ReadsInOrderUntilFirstFailure ==
    /\ Len(calls) <= Len(ExpectedCalls)
    /\ calls = SubSeq(ExpectedCalls, 1, Len(calls))
    /\ pc = "thrown" =>
           /\ calls = ExpectedCalls
           /\ ExpectedError # "none"
           /\ ErrorOf(exception[1]) = ExpectedError
           /\ ~constructed
    /\ pc = "done" =>
           /\ calls = ExpectedCalls
           /\ ExpectedError = "none"

C10_Witness ==
    /\ hasSection
    /\ ~HostingModelRecognised
    /\ section.processPath = nullopt
    /\ Failed("InvalidHostingModelError")
    /\ calls = <<"GetRequiredSection", "GetString:hostingModel">>

====
